---- MODULE Spec2Model ----
(***************************************************************************)
(* The generic CRTP commander packet decoder of the Crazyflie firmware,    *)
(* src/modules/src/crtp_commander_generic.c.                               *)
(*                                                                         *)
(* A packet is the sequence of its bytes (pk->data[0 .. pk->size-1]); the  *)
(* first byte is the type, the rest the payload.  A 32-bit object (a       *)
(* float's bit pattern, a uint32_t) is the pair <<high half, low half>> of *)
(* its 16-bit halves; a half-precision number is its 16-bit pattern.  C    *)
(* arrays keep their 0-based indices.  The target is little-endian         *)
(* (Cortex-M, GCC): multi-byte fields are read least significant byte      *)
(* first and bit-fields are allocated from the least significant bit.      *)
(***************************************************************************)
EXTENDS Integers, Sequences, FiniteSets, TLC

VARIABLES
  setpoint,    \* the caller's setpoint_t, *setpoint
  debugCount,  \* static uint32_t debugCount   (log spdebug.packetsReceived)
  testValueX,  \* static float testValueX      (log spdebug.x)
  testValueY,  \* static float testValueY      (log spdebug.y)
  testValueZ,  \* static float testValueZ      (log spdebug.z)
  nTypes,      \* static int nTypes of crtpCommanderGenericDecodeSetpoint
  pk,          \* the packet of the call in progress (or of the last call)
  pc,          \* position of the single decoding task
  inputs,      \* history: the packets handed to the decoder so far, in order
  atCall       \* history: setpoint and diagnostics as they were at the call

vars == <<setpoint, debugCount, testValueX, testValueY, testValueZ, nTypes,
          pk, pc, inputs, atCall>>

diagnostics == <<debugCount, testValueX, testValueY, testValueZ>>

-----------------------------------------------------------------------------
(* Bounds of the model *)

MaxCalls == 3

-----------------------------------------------------------------------------
(* Machine arithmetic and wire access *)

Pow2(n) == 2 ^ n

\* the all-zero 32-bit object: 0.0f, or (uint32_t)0
Zero32 == <<0, 0>>

\* ((char*)data)[off]
ByteAt(data, off) == data[off + 1]

\* Variant of LE16: the two bytes taken most significant first
LE16_bigEndian(data, off) == 256 * ByteAt(data, off) + ByteAt(data, off + 1)

\* a packed little-endian uint16_t at byte offset off
LE16(data, off) == ByteAt(data, off) + 256 * ByteAt(data, off + 1)

\* a packed little-endian 32-bit float at byte offset off (its bit pattern)
LE32(data, off) == <<LE16(data, off + 2), LE16(data, off)>>

\* num.c: IEEE-754 binary16 pattern widened to the binary32 pattern
half2single(number) ==
  LET s == number \div 32768
      e == (number \div 1024) % 32
      m == number % 1024
      \* sign, binary32 exponent field and 10 fraction bits, as two halves
      Single(exp, frac) ==
        <<s * Pow2(15) + exp * Pow2(7) + frac \div 8, (frac % 8) * Pow2(13)>>
  IN  IF e = 0
      THEN IF m = 0
           THEN Single(0, 0)
           ELSE LET k == CHOOSE k \in 1..10 :
                           m * Pow2(k) >= 1024 /\ m * Pow2(k - 1) < 1024
                IN  Single(113 - k, (m * Pow2(k)) % 1024)
      ELSE IF e = 31
           THEN Single(255, m)
           ELSE Single(e + 112, m)

-----------------------------------------------------------------------------
(* setpoint_t, as far as this file names it *)

\* stab_mode_t: modeDisable = 0, modeAbs = 1, modeVelocity = 2
modeVelocity == 2

\* The setpoint_t with every byte zero.  `rest' stands for all bytes of
\* setpoint_t that this file never names.
NeutralSetpoint ==
  [ mode          |-> [x |-> 0, y |-> 0, z |-> 0, yaw |-> 0],
    velocity      |-> [x |-> Zero32, y |-> Zero32, z |-> Zero32],
    attitudeRate  |-> [yaw |-> Zero32],
    xmode |-> 0, ymode |-> 0, zmode |-> 0,
    x   |-> [i \in 0..2 |-> Zero32],
    y   |-> [i \in 0..2 |-> Zero32],
    z   |-> [i \in 0..2 |-> Zero32],
    yaw |-> [i \in 0..1 |-> Zero32],
    setEmergency |-> 0, resetEmergency |-> 0,
    rest |-> 0 ]

\* Variant of memsetZero: the call is missing
memsetZero_missing(sp) == sp

\* Variant of memsetZero: the size is that of the structure without the
\* members of the full-control command
memsetZero_short(sp) ==
  [NeutralSetpoint EXCEPT
     !.xmode = sp.xmode, !.ymode = sp.ymode, !.zmode = sp.zmode,
     !.x = sp.x, !.y = sp.y, !.z = sp.z, !.yaw = sp.yaw,
     !.setEmergency = sp.setEmergency, !.resetEmergency = sp.resetEmergency]

\* memset(setpoint, 0, sizeof(setpoint_t))
memsetZero(sp) == NeutralSetpoint

-----------------------------------------------------------------------------
(* 1 - packet types *)

stopType          == 0
velocityWorldType == 1
rateType          == 2
fullControlType   == 3

-----------------------------------------------------------------------------
(* 2 - decoding functions: the writes each makes to *setpoint *)

\* sizeof(struct velocityPacket_s): four packed floats
sizeof_velocityPacket_s == 4 * 4

\* Variant of velocityDecoder: the velocities go to slot 0 of x, y, z
velocityDecoder_slot0(sp, data) ==
  LET vx      == LE32(data, 0)
      vy      == LE32(data, 4)
      vz      == LE32(data, 8)
      yawrate == LE32(data, 12)
  IN  [sp EXCEPT
         !.mode         = [x |-> modeVelocity, y |-> modeVelocity,
                           z |-> modeVelocity, yaw |-> modeVelocity],
         !.velocity     = [x |-> vx, y |-> vy, z |-> vz],
         !.xmode        = 2,
         !.ymode        = 2,
         !.zmode        = 2,
         !.x[0]         = vx,
         !.y[0]         = vy,
         !.z[0]         = vz,
         !.attitudeRate = [yaw |-> yawrate]]

velocityDecoder(sp, data) ==
  LET vx      == LE32(data, 0)
      vy      == LE32(data, 4)
      vz      == LE32(data, 8)
      yawrate == LE32(data, 12)
  IN  [sp EXCEPT
         !.mode         = [x |-> modeVelocity, y |-> modeVelocity,
                           z |-> modeVelocity, yaw |-> modeVelocity],
         !.velocity     = [x |-> vx, y |-> vy, z |-> vz],
         !.xmode        = 2,
         !.ymode        = 2,
         !.zmode        = 2,
         !.x[1]         = vx,
         !.y[1]         = vy,
         !.z[1]         = vz,
         !.attitudeRate = [yaw |-> yawrate]]

\* Variant of fullControlPacketHeader_t: the bit-fields allocated from the
\* most significant bit
fullControlPacketHeader_msbFirst ==
  << [name |-> "",                           width |-> 4],
     [name |-> "controlModeZ",               width |-> 3],
     [name |-> "controlModeY",               width |-> 3],
     [name |-> "controlModeX",               width |-> 3],
     [name |-> "resetEmergency",             width |-> 1],
     [name |-> "setEmergency",               width |-> 1],
     [name |-> "packetHasExternalReference", width |-> 1] >>

\* fullControlPacketHeader_t: the bit-fields in declaration order, each with
\* its width; the unnamed last one is padding
fullControlPacketHeader_t ==
  << [name |-> "packetHasExternalReference", width |-> 1],
     [name |-> "setEmergency",               width |-> 1],
     [name |-> "resetEmergency",             width |-> 1],
     [name |-> "controlModeX",               width |-> 3],
     [name |-> "controlModeY",               width |-> 3],
     [name |-> "controlModeZ",               width |-> 3],
     [name |-> "",                           width |-> 4] >>

RECURSIVE BitsBefore(_)
\* the bit offset of the i-th declared bit-field: the widths before it
BitsBefore(i) ==
  IF i = 1 THEN 0
  ELSE BitsBefore(i - 1) + fullControlPacketHeader_t[i - 1].width

\* header->name, header being the 16-bit word at the start of the payload
HeaderField(header, name) ==
  LET i == CHOOSE j \in DOMAIN fullControlPacketHeader_t :
             fullControlPacketHeader_t[j].name = name
  IN  (header \div Pow2(BitsBefore(i)))
        % Pow2(fullControlPacketHeader_t[i].width)

\* fullControlPacket_t: byte offsets of the packed members
offsetof_x   == 2
offsetof_y   == offsetof_x + 3 * 2
offsetof_z   == offsetof_y + 3 * 2
offsetof_yaw == offsetof_z + 3 * 2

\* Variant of sizeof_fullControlPacket_t: yaw declared with three elements
sizeof_fullControlPacket_yaw3 == offsetof_yaw + 3 * 2

sizeof_fullControlPacket_t == offsetof_yaw + 2 * 2

\* Variant of fullControlDecoder: the control mode codes are also written to
\* the enumerated modes
fullControlDecoder_setsMode(sp, data) ==
  LET header == LE16(data, 0)
  IN  [sp EXCEPT
         !.mode.x         = HeaderField(header, "controlModeX"),
         !.mode.y         = HeaderField(header, "controlModeY"),
         !.mode.z         = HeaderField(header, "controlModeZ"),
         !.xmode          = HeaderField(header, "controlModeX"),
         !.ymode          = HeaderField(header, "controlModeY"),
         !.zmode          = HeaderField(header, "controlModeZ"),
         !.setEmergency   = HeaderField(header, "setEmergency"),
         !.resetEmergency = HeaderField(header, "resetEmergency"),
         !.x   = [i \in 0..2 |-> half2single(LE16(data, offsetof_x + 2 * i))],
         !.y   = [i \in 0..2 |-> half2single(LE16(data, offsetof_y + 2 * i))],
         !.z   = [i \in 0..2 |-> half2single(LE16(data, offsetof_z + 2 * i))],
         !.yaw = [i \in 0..1 |-> half2single(LE16(data, offsetof_yaw + 2 * i))]]

fullControlDecoder(sp, data) ==
  LET header == LE16(data, 0)
  IN  [sp EXCEPT
         !.xmode          = HeaderField(header, "controlModeX"),
         !.ymode          = HeaderField(header, "controlModeY"),
         !.zmode          = HeaderField(header, "controlModeZ"),
         !.setEmergency   = HeaderField(header, "setEmergency"),
         !.resetEmergency = HeaderField(header, "resetEmergency"),
         !.x   = [i \in 0..2 |-> half2single(LE16(data, offsetof_x + 2 * i))],
         !.y   = [i \in 0..2 |-> half2single(LE16(data, offsetof_y + 2 * i))],
         !.z   = [i \in 0..2 |-> half2single(LE16(data, offsetof_z + 2 * i))],
         !.yaw = [i \in 0..1 |-> half2single(LE16(data, offsetof_yaw + 2 * i))]]

-----------------------------------------------------------------------------
(* 3 - packetDecoders array *)

\* Variant of packetDecoders: the rate type given the velocity decoder
packetDecoders_rateRegistered ==
  [t \in 0..fullControlType |->
     IF t = stopType THEN "stopDecoder"
     ELSE IF t = velocityWorldType THEN "velocityDecoder"
     ELSE IF t = rateType THEN "velocityDecoder"
     ELSE "fullControlDecoder"]

packetDecoders ==
  [t \in 0..fullControlType |->
     IF t = stopType THEN "stopDecoder"
     ELSE IF t = velocityWorldType THEN "velocityDecoder"
     ELSE IF t = fullControlType THEN "fullControlDecoder"
     ELSE "NULL"]

\* sizeof(packetDecoders)/sizeof(packetDecoders[0])
sizeof_packetDecoders == Cardinality(DOMAIN packetDecoders)

-----------------------------------------------------------------------------
(* The decoding task, one step per statement group *)

\* ASSERT(e) with e false: assertFail() stops the system; nothing runs after
AssertFailed == "fatal"

\* Variant of diagnosticStores: the counter incremented before the samples
\* are stored
diagnosticStores_countFirst ==
  <<"debugCount", "testValueX", "testValueY", "testValueZ">>

\* the statements that close fullControlDecoder, in program order
diagnosticStores == <<"testValueX", "testValueY", "testValueZ", "debugCount">>

\* where control goes after the diagnostic statement at label l
AfterStore(l) ==
  LET i == CHOOSE j \in DOMAIN diagnosticStores : diagnosticStores[j] = l
  IN  IF i < Len(diagnosticStores) THEN diagnosticStores[i + 1] ELSE "return"

\* Variant of storedY: the line of x copied without changing the axis
storedY_copied(sp) == sp.x[0]

\* testValueX = setpoint->x[0];  and the same for y and z
storedX(sp) == sp.x[0]
storedY(sp) == sp.y[0]
storedZ(sp) == sp.z[0]

\* debugCount++ on a uint32_t
incremented(count) ==
  IF count[2] = 65535
  THEN <<(count[1] + 1) % 65536, 0>>
  ELSE <<count[1], count[2] + 1>>

\* ((char*)pk->data)+1, of length pk->size-1
Payload(p) == SubSeq(p, 2, Len(p))

\* crtpCommanderGenericDecodeSetpoint up to and including the memset
Entry ==
  /\ pc = "entry"
  /\ IF Len(pk) > 0
     THEN /\ nTypes' = IF nTypes < 0 THEN sizeof_packetDecoders ELSE nTypes
          /\ setpoint' = memsetZero(setpoint)
          /\ pc' = "dispatch"
     ELSE /\ pc' = AssertFailed
          /\ UNCHANGED <<nTypes, setpoint>>
  /\ UNCHANGED <<diagnostics, pk, inputs, atCall>>

\* if (type<nTypes && (packetDecoders[type] != NULL)) packetDecoders[type](...)
Dispatch ==
  /\ pc = "dispatch"
  /\ LET type == pk[1]
     IN  pc' = IF type < nTypes /\ packetDecoders[type] # "NULL"
               THEN packetDecoders[type]
               ELSE "return"
  /\ UNCHANGED <<setpoint, diagnostics, nTypes, pk, inputs, atCall>>

StopDecoder ==
  /\ pc = "stopDecoder"
  /\ pc' = "return"
  /\ UNCHANGED <<setpoint, diagnostics, nTypes, pk, inputs, atCall>>

VelocityDecoder ==
  /\ pc = "velocityDecoder"
  /\ IF Len(Payload(pk)) = sizeof_velocityPacket_s
     THEN /\ setpoint' = velocityDecoder(setpoint, Payload(pk))
          /\ pc' = "return"
     ELSE /\ pc' = AssertFailed
          /\ UNCHANGED setpoint
  /\ UNCHANGED <<diagnostics, nTypes, pk, inputs, atCall>>

FullControlDecoder ==
  /\ pc = "fullControlDecoder"
  /\ IF Len(Payload(pk)) = sizeof_fullControlPacket_t
     THEN /\ setpoint' = fullControlDecoder(setpoint, Payload(pk))
          /\ pc' = diagnosticStores[1]
     ELSE /\ pc' = AssertFailed
          /\ UNCHANGED setpoint
  /\ UNCHANGED <<diagnostics, nTypes, pk, inputs, atCall>>

StoreTestValueX ==
  /\ pc = "testValueX"
  /\ testValueX' = storedX(setpoint)
  /\ pc' = AfterStore("testValueX")
  /\ UNCHANGED <<setpoint, debugCount, testValueY, testValueZ, nTypes, pk,
                 inputs, atCall>>

StoreTestValueY ==
  /\ pc = "testValueY"
  /\ testValueY' = storedY(setpoint)
  /\ pc' = AfterStore("testValueY")
  /\ UNCHANGED <<setpoint, debugCount, testValueX, testValueZ, nTypes, pk,
                 inputs, atCall>>

StoreTestValueZ ==
  /\ pc = "testValueZ"
  /\ testValueZ' = storedZ(setpoint)
  /\ pc' = AfterStore("testValueZ")
  /\ UNCHANGED <<setpoint, debugCount, testValueX, testValueY, nTypes, pk,
                 inputs, atCall>>

IncrementDebugCount ==
  /\ pc = "debugCount"
  /\ debugCount' = incremented(debugCount)
  /\ pc' = AfterStore("debugCount")
  /\ UNCHANGED <<setpoint, testValueX, testValueY, testValueZ, nTypes, pk,
                 inputs, atCall>>

\* the decoder returns to its caller, which waits for the next packet
Return ==
  /\ pc = "return"
  /\ pc' = "idle"
  /\ UNCHANGED <<setpoint, diagnostics, nTypes, pk, inputs, atCall>>

Decode ==
  \/ Entry
  \/ Dispatch
  \/ StopDecoder
  \/ VelocityDecoder
  \/ FullControlDecoder
  \/ StoreTestValueX
  \/ StoreTestValueY
  \/ StoreTestValueZ
  \/ IncrementDebugCount
  \/ Return

-----------------------------------------------------------------------------
(* The caller and its packets *)

\* sender side: the bytes of a uint16_t and of a float pattern, low byte first
Bytes16(w) == <<w % 256, w \div 256>>
Bytes32(f) == Bytes16(f[2]) \o Bytes16(f[1])

\* type byte t followed by len payload bytes, none of them zero
Filled(t, len) == <<t>> \o [i \in 1..len |-> 1 + ((17 * i + t) % 255)]

VelocityPacket(vx, vy, vz, yawrate) ==
  <<velocityWorldType>> \o Bytes32(vx) \o Bytes32(vy) \o Bytes32(vz)
    \o Bytes32(yawrate)

RECURSIVE Words(_)
Words(ws) == IF ws = <<>> THEN <<>> ELSE Bytes16(Head(ws)) \o Words(Tail(ws))

\* header word, then x[3], y[3], z[3], yaw[2] as one sequence of 11 words
FullControlPacket(header, body) ==
  <<fullControlType>> \o Bytes16(header) \o Words(body)

\* a setpoint_t the caller hands in: zeroed, or left over with every byte set
StaleSetpoint ==
  [ mode          |-> [x |-> 1, y |-> 2, z |-> 1, yaw |-> 2],
    velocity      |-> [x |-> <<7, 1>>, y |-> <<8, 1>>, z |-> <<9, 1>>],
    attitudeRate  |-> [yaw |-> <<10, 1>>],
    xmode |-> 5, ymode |-> 6, zmode |-> 7,
    x   |-> [i \in 0..2 |-> <<11 + i, 1>>],
    y   |-> [i \in 0..2 |-> <<21 + i, 1>>],
    z   |-> [i \in 0..2 |-> <<31 + i, 1>>],
    yaw |-> [i \in 0..1 |-> <<41 + i, 1>>],
    setEmergency |-> 1, resetEmergency |-> 1,
    rest |-> 1 ]

\* float patterns: 0.0, 0.5, 1.0, 2.0, 3.0, -1.0, 0.1
F_0   == Zero32
F_0_5 == <<16128, 0>>
F_1   == <<16256, 0>>
F_2   == <<16384, 0>>
F_3   == <<16448, 0>>
F_m1  == <<49024, 0>>
F_0_1 == <<15820, 52429>>

\* half patterns: 0, smallest subnormal, largest subnormal, 0.5, 1.0, -2.0,
\* largest finite, +inf, -0, a NaN
HalfSamples == {0, 1, 1023, 14336, 15360, 49152, 31743, 31744, 32768, 32256}

\* eleven different body words: 1.0, 2.0, 3.0, ..., 11.0 in half precision
BodyA == <<15360, 16384, 16896, 17408, 17664, 17920, 18176, 18432, 18560,
           18688, 18816>>
\* and eleven others: -1.0, -2.0, ..., -11.0
BodyB == [i \in 1..11 |-> BodyA[i] + 32768]

\* the packets of the long-running specification
Packets ==
  { <<>>,
    Filled(stopType, 0), Filled(stopType, 5), Filled(stopType, 29),
    VelocityPacket(F_1, F_2, F_3, F_0_5),
    VelocityPacket(F_m1, F_0, F_0_1, F_3),
    Filled(velocityWorldType, 15), Filled(velocityWorldType, 17),
    Filled(rateType, 0), Filled(rateType, 16),
    FullControlPacket(1170, BodyA),
    FullControlPacket(65535, BodyB),
    FullControlPacket(0, BodyB),
    Filled(fullControlType, 18), Filled(fullControlType, 25),
    Filled(4, 0), Filled(99, 24), Filled(255, 29) }

\* the caller receives a packet and passes it with its setpoint_t, which
\* still holds what the last call left there
Receive ==
  /\ pc = "idle"
  /\ Len(inputs) < MaxCalls
  /\ \E p \in Packets :
       /\ pk' = p
       /\ inputs' = Append(inputs, p)
  /\ atCall' = [setpoint |-> setpoint, diagnostics |-> diagnostics]
  /\ pc' = "entry"
  /\ UNCHANGED <<setpoint, diagnostics, nTypes>>

\* process start: statics zero-initialised, nTypes = -1, no packet yet
Init ==
  /\ setpoint \in {NeutralSetpoint, StaleSetpoint}
  /\ debugCount = Zero32
  /\ testValueX = Zero32
  /\ testValueY = Zero32
  /\ testValueZ = Zero32
  /\ nTypes = -1
  /\ pk = <<>>
  /\ pc = "idle"
  /\ inputs = <<>>
  /\ atCall = [setpoint |-> setpoint, diagnostics |-> <<Zero32, Zero32, Zero32, Zero32>>]

Next == Receive \/ Decode

Spec == Init /\ [][Next]_vars

-----------------------------------------------------------------------------
(* One call on one packet, for the properties of the decoding itself *)

FloatSamples == {F_0_5, F_1, F_2, F_3, F_m1, F_0_1}

VelocityPackets ==
  { VelocityPacket(vx, vy, vz, yawrate) :
      vx \in FloatSamples, vy \in FloatSamples, vz \in FloatSamples,
      yawrate \in FloatSamples }

\* every type byte with every payload length the link can carry
MaxPayload == 29

TypeLengthPackets ==
  { Filled(t, len) : t \in 0..255, len \in 0..MaxPayload } \cup { <<>> }

\* BodyA and BodyB with one word replaced
Bodies ==
  { [b EXCEPT ![i] = h] : b \in {BodyA, BodyB}, i \in 1..11, h \in HalfSamples }

BodyPackets ==
  { FullControlPacket(1170, b) : b \in Bodies }
    \cup { FullControlPacket(h, BodyA) : h \in {0, 65535} }

\* every value of the 16-bit header word, and three packets that stop after
\* eight body words
HeaderPackets ==
  { FullControlPacket(h, BodyA) : h \in 0..65535 }
    \cup { FullControlPacket(h, SubSeq(BodyA, 1, 8)) : h \in {0, 1170, 65535} }

\* the statics at process start, and after FullControlPacket(0, BodyB) has
\* been decoded once
Statics ==
  { [debugCount |-> Zero32, testValueX |-> Zero32, testValueY |-> Zero32,
     testValueZ |-> Zero32, nTypes |-> -1],
    [debugCount |-> <<0, 1>>,
     testValueX |-> half2single(BodyB[1]),
     testValueY |-> half2single(BodyB[4]),
     testValueZ |-> half2single(BodyB[7]),
     nTypes |-> sizeof_packetDecoders] }

\* the call of the decoder on one of the packets
InitCall(packets, buffers, statics) ==
  /\ setpoint \in buffers
  /\ \E st \in statics :
       /\ debugCount = st.debugCount
       /\ testValueX = st.testValueX
       /\ testValueY = st.testValueY
       /\ testValueZ = st.testValueZ
       /\ nTypes = st.nTypes
  /\ pk \in packets
  /\ pc = "entry"
  /\ inputs = <<pk>>
  /\ atCall = [setpoint |-> setpoint, diagnostics |-> diagnostics]

InitOne ==
  InitCall(TypeLengthPackets \cup VelocityPackets \cup BodyPackets,
           {NeutralSetpoint, StaleSetpoint}, Statics)

SpecOne == InitOne /\ [][Decode]_vars

InitHeader == InitCall(HeaderPackets, {StaleSetpoint}, Statics)

NextHeader ==
  \/ Entry
  \/ Dispatch
  \/ FullControlDecoder
  \/ StoreTestValueX
  \/ StoreTestValueY
  \/ StoreTestValueZ
  \/ IncrementDebugCount
  \/ Return

SpecHeader == InitHeader /\ [][NextHeader]_vars

-----------------------------------------------------------------------------
(* Vocabulary of the properties *)

\* the decoder has finished on pk and returns, or has returned, to its caller
Returned == inputs # <<>> /\ pc \in {"return", "idle"}

\* the decoder was entered on pk and the system stopped in an assertion
Stopped == inputs # <<>> /\ pc = "fatal"

PayloadLength(p) == Len(p) - 1

\* what the wire carries, read off the packet bytes p[1], p[2], ...
WireHeader(p) == p[2] + 256 * p[3]
WireWord(p, i) == p[4 + 2 * i] + 256 * p[5 + 2 * i]
\* the i-th float of the payload, as <<bytes 3 and 2, bytes 1 and 0>>
WireFloat(p, i) == <<p[4 + 4 * i] + 256 * p[5 + 4 * i],
                     p[2 + 4 * i] + 256 * p[3 + 4 * i]>>

\* a packet the velocity decoder, the full-control decoder accepts
IsVelocity(p) == Len(p) = 17 /\ p[1] = 1
IsFullControl(p) == Len(p) = 25 /\ p[1] = 3

\* bits lo .. lo+n-1 of the word w
Bits(w, lo, n) == (w \div Pow2(lo)) % Pow2(n)

\* the number n as a uint32_t
U32(n) == <<(n \div 65536) % 65536, n % 65536>>

\* the first terms of x, y, z that the full-control packet p carries
FirstTerms(p) ==
  <<half2single(WireWord(p, 0)), half2single(WireWord(p, 3)),
    half2single(WireWord(p, 6))>>

-----------------------------------------------------------------------------
(* C1 *)

NoEffectiveDecoder(p) == Len(p) >= 1 /\ p[1] \in ({0, 2} \cup (4..255))

\* C1: a packet of size >= 1 whose type is 0, 2 or 4..255 never reaches a
\* decoder that writes or asserts, whatever its payload length 0..29: the call
\* does not stop in an assertion, and when it returns the Setpoint is
\* all-neutral, whatever it held at the call.
C1_NoDecoderNeutral ==
  (inputs # <<>> /\ NoEffectiveDecoder(pk)) =>
     /\ pc \in {"entry", "dispatch", "stopDecoder", "return", "idle"}
     /\ Returned => setpoint = NeutralSetpoint

C1_Witness ==
  /\ pc = "return"
  /\ pk[1] = 99
  /\ PayloadLength(pk) = 29
  /\ atCall.setpoint = StaleSetpoint
  /\ setpoint = NeutralSetpoint

-----------------------------------------------------------------------------
(* C2 *)

\* the decoder of a type-1 or type-3 packet has run past its assertion
PastAssertion ==
  pc \in {"testValueX", "testValueY", "testValueZ", "debugCount", "return",
          "idle"}

\* no write of a decoder has happened in this call
NothingDecoded ==
  /\ pc # "entry" => setpoint = NeutralSetpoint
  /\ diagnostics = atCall.diagnostics

LengthRule(required) ==
  (inputs # <<>> /\ Len(pk) >= 1 /\ pk[1] \in DOMAIN required) =>
     IF PayloadLength(pk) = required[pk[1]]
     THEN pc # "fatal"
     ELSE ~PastAssertion /\ NothingDecoded

\* C2 as stated: the required payload lengths are 16 bytes for type 1 and 18
\* bytes for type 3; any other length stops in the assertion with nothing
\* decoded (and the required length does not).
C2_AsStated == LengthRule(1 :> 16 @@ 3 :> 18)

\* C2, amended: the required payload lengths are 16 bytes for type 1 and 24
\* bytes for type 3 (2-byte header and eleven 16-bit words); every type-1 or
\* type-3 packet of another payload length stops in the assertion, with no
\* Setpoint field written by the decoder and no diagnostic changed, and a
\* packet of the required length does not stop.
C2_LengthMismatchFatal == LengthRule(1 :> 16 @@ 3 :> 24)

C2_Witness ==
  /\ Stopped
  /\ Len(pk) >= 1
  /\ pk[1] = 3
  /\ PayloadLength(pk) = 18
  /\ atCall.setpoint = StaleSetpoint
  /\ atCall.diagnostics[1] = <<0, 1>>
  /\ NothingDecoded

-----------------------------------------------------------------------------
(* C3 *)

MirrorEqualsMode ==
  /\ setpoint.xmode = setpoint.mode.x
  /\ setpoint.ymode = setpoint.mode.y
  /\ setpoint.zmode = setpoint.mode.z

\* C3 as stated: after every call that returns, the 3-bit mode of each axis
\* equals the enumerated mode of that axis.
C3_AsStated == Returned => MirrorEqualsMode

\* C3, amended: after a call that returns on a packet other than an accepted
\* full-control packet, xmode/ymode/zmode equal mode.x/mode.y/mode.z; after
\* a full-control packet xmode/ymode/zmode equal the 3-bit codes of the
\* header, untranslated, and mode.x/mode.y/mode.z are modeDisable (0).
C3_MirrorMode ==
  Returned =>
     IF IsFullControl(pk)
     THEN /\ setpoint.xmode = Bits(WireHeader(pk), 3, 3)
          /\ setpoint.ymode = Bits(WireHeader(pk), 6, 3)
          /\ setpoint.zmode = Bits(WireHeader(pk), 9, 3)
          /\ setpoint.mode = [x |-> 0, y |-> 0, z |-> 0, yaw |-> 0]
     ELSE MirrorEqualsMode

C3_Witness ==
  /\ pc = "return"
  /\ IsFullControl(pk)
  /\ setpoint.xmode = 7
  /\ setpoint.mode.x = 0
  /\ atCall.setpoint = StaleSetpoint

-----------------------------------------------------------------------------
(* C4 *)

\* C4: a type-1 packet whose 16 payload bytes carry vx, vy, vz, yawrate
\* returns with mode velocity on x, y, z and yaw, vx, vy, vz in slot 1 of x,
\* y, z, yawrate in attitudeRate.yaw and the 3-bit modes equal to 2.
C4_VelocityMapping ==
  (Returned /\ IsVelocity(pk)) =>
     /\ setpoint.mode = [x |-> modeVelocity, y |-> modeVelocity,
                          z |-> modeVelocity, yaw |-> modeVelocity]
     /\ setpoint.xmode = 2
     /\ setpoint.ymode = 2
     /\ setpoint.zmode = 2
     /\ setpoint.x[1] = WireFloat(pk, 0)
     /\ setpoint.y[1] = WireFloat(pk, 1)
     /\ setpoint.z[1] = WireFloat(pk, 2)
     /\ setpoint.attitudeRate.yaw = WireFloat(pk, 3)
     /\ \A v \in FloatSamples :
          /\ SubSeq(pk, 2, 5) = Bytes32(v) => setpoint.x[1] = v
          /\ SubSeq(pk, 6, 9) = Bytes32(v) => setpoint.y[1] = v
          /\ SubSeq(pk, 10, 13) = Bytes32(v) => setpoint.z[1] = v
          /\ SubSeq(pk, 14, 17) = Bytes32(v) => setpoint.attitudeRate.yaw = v

C4_Witness ==
  /\ pc = "return"
  /\ pk = VelocityPacket(F_1, F_2, F_3, F_0_5)
  /\ setpoint.x[1] = F_1
  /\ setpoint.y[1] = F_2
  /\ setpoint.z[1] = F_3
  /\ setpoint.attitudeRate.yaw = F_0_5
  /\ atCall.setpoint = StaleSetpoint

-----------------------------------------------------------------------------
(* C5 *)

\* the Setpoint a full-control packet is to produce: mode codes and emergency
\* flags from header bits 1..11, the eleven body words in wire order, all
\* else zero
FullControlResult(p) ==
  [NeutralSetpoint EXCEPT
     !.setEmergency   = Bits(WireHeader(p), 1, 1),
     !.resetEmergency = Bits(WireHeader(p), 2, 1),
     !.xmode          = Bits(WireHeader(p), 3, 3),
     !.ymode          = Bits(WireHeader(p), 6, 3),
     !.zmode          = Bits(WireHeader(p), 9, 3),
     !.x   = [i \in 0..2 |-> half2single(WireWord(p, i))],
     !.y   = [i \in 0..2 |-> half2single(WireWord(p, 3 + i))],
     !.z   = [i \in 0..2 |-> half2single(WireWord(p, 6 + i))],
     !.yaw = [i \in 0..1 |-> half2single(WireWord(p, 9 + i))]]

HeaderFieldsDecoded ==
  /\ setpoint.setEmergency   = Bits(WireHeader(pk), 1, 1)
  /\ setpoint.resetEmergency = Bits(WireHeader(pk), 2, 1)
  /\ setpoint.xmode          = Bits(WireHeader(pk), 3, 3)
  /\ setpoint.ymode          = Bits(WireHeader(pk), 6, 3)
  /\ setpoint.zmode          = Bits(WireHeader(pk), 9, 3)

\* C5 as stated: a full-control packet with a payload of exactly 18 bytes is
\* decoded, and its mode codes and emergency flags are those header bits.
C5_AsStated ==
  (inputs # <<>> /\ Len(pk) >= 1 /\ pk[1] = 3 /\ PayloadLength(pk) = 18) =>
     /\ pc # "fatal"
     /\ Returned => HeaderFieldsDecoded

\* C5, amended: for every 16-bit header of a full-control packet with a
\* payload of exactly 24 bytes, xmode, ymode, zmode are header bits 3-5, 6-8,
\* 9-11, setEmergency is bit 1 and resetEmergency bit 2, and the returned
\* Setpoint depends on no header bit other than bits 1..11 (bit 0 and bits
\* 12-15 change nothing).
C5_HeaderFields ==
  (Returned /\ IsFullControl(pk)) =>
     /\ HeaderFieldsDecoded
     /\ setpoint = FullControlResult(pk)

C5_Witness ==
  /\ pc = "return"
  /\ IsFullControl(pk)
  /\ WireHeader(pk) = 61441 + 8 * 5 + 64 * 3 + 512 * 6 + 4
  /\ setpoint.xmode = 5
  /\ setpoint.ymode = 3
  /\ setpoint.zmode = 6
  /\ setpoint.setEmergency = 0
  /\ setpoint.resetEmergency = 1

-----------------------------------------------------------------------------
(* C6 *)

\* the eleven slots of the Setpoint that take body words, in wire order
BodySlots(sp) ==
  <<sp.x[0], sp.x[1], sp.x[2], sp.y[0], sp.y[1], sp.y[2],
    sp.z[0], sp.z[1], sp.z[2], sp.yaw[0], sp.yaw[1]>>

\* the packet p with body word i (0..10) replaced by w
WithWord(p, i, w) ==
  [p EXCEPT ![4 + 2 * i] = w % 256, ![5 + 2 * i] = w \div 256]

\* C6 as stated: a full-control packet with a payload of exactly 18 bytes is
\* decoded, and its body words land in the slots in wire order.
C6_AsStated ==
  (inputs # <<>> /\ Len(pk) >= 1 /\ pk[1] = 3 /\ PayloadLength(pk) = 18) =>
     /\ pc # "fatal"
     /\ Returned =>
          \A i \in 0..7 : BodySlots(setpoint)[i + 1] = half2single(WireWord(pk, i))

\* C6, amended: for every full-control packet with a payload of exactly 24
\* bytes, each of the eleven 16-bit body words after the header is decoded
\* by the half-precision codec into its own slot, in wire order x[0..2],
\* y[0..2], z[0..2], yaw[0..1]; replacing one body word changes the slot of
\* that word and nothing else of the Setpoint.
C6_BodySlots ==
  (Returned /\ IsFullControl(pk)) =>
     /\ \A i \in 0..10 :
          BodySlots(setpoint)[i + 1] = half2single(WireWord(pk, i))
     /\ \A i \in 0..10, w \in {1, 31744} :
          LET other == fullControlDecoder(NeutralSetpoint,
                                          Payload(WithWord(pk, i, w)))
          IN  /\ BodySlots(other)[i + 1] = half2single(w)
              /\ \A j \in 0..10 :
                   j # i => BodySlots(other)[j + 1] = BodySlots(setpoint)[j + 1]
              /\ [other EXCEPT !.x = setpoint.x, !.y = setpoint.y,
                               !.z = setpoint.z, !.yaw = setpoint.yaw]
                   = setpoint

C6_Witness ==
  /\ pc = "return"
  /\ pk = FullControlPacket(1170, [BodyA EXCEPT ![5] = 31744])
  /\ BodySlots(setpoint) =
       << <<16256, 0>>, <<16384, 0>>, <<16448, 0>>, <<16512, 0>>,
          <<32640, 0>>, <<16576, 0>>, <<16608, 0>>, <<16640, 0>>,
          <<16656, 0>>, <<16672, 0>>, <<16688, 0>> >>

-----------------------------------------------------------------------------
(* C7 *)

\* the Setpoint that the packet p alone determines
ResultOf(p) ==
  IF IsVelocity(p) THEN velocityDecoder(NeutralSetpoint, Payload(p))
  ELSE IF IsFullControl(p) THEN fullControlDecoder(NeutralSetpoint, Payload(p))
  ELSE NeutralSetpoint

\* C7: the Setpoint of a call that returns is a function of the packet alone,
\* whatever the Setpoint held at the call and whatever was decoded before:
\* it is the decoder's writes on an all-zero Setpoint, and a packet decoded
\* twice in a row leaves the Setpoint the first decoding left.
C7_FunctionOfPacket ==
  Returned =>
     /\ setpoint = ResultOf(pk)
     /\ (Len(inputs) >= 2 /\ inputs[Len(inputs) - 1] = pk)
           => setpoint = atCall.setpoint

C7_Witness ==
  /\ pc = "return"
  /\ inputs = << VelocityPacket(F_1, F_2, F_3, F_0_5),
                 FullControlPacket(65535, BodyB),
                 VelocityPacket(F_1, F_2, F_3, F_0_5) >>
  /\ atCall.setpoint.xmode = 7
  /\ atCall.diagnostics[1] = <<0, 1>>
  /\ setpoint.xmode = 2
  /\ setpoint.x = [i \in 0..2 |-> IF i = 1 THEN F_1 ELSE Zero32]

-----------------------------------------------------------------------------
(* C8 *)

\* the full-control packets among the packets handed to the decoder
FullControlInputs == SelectSeq(inputs, IsFullControl)

\* C8: between calls, packetsReceived is the number of full-control packets
\* decoded since process start (as a uint32_t) and x, y, z of the log group
\* are the first terms of the last of them; a call that returns on any other
\* packet leaves the four diagnostics as they were at the call.
C8_Diagnostics ==
  /\ pc = "idle" =>
        /\ debugCount = U32(Len(FullControlInputs))
        /\ FullControlInputs # <<>> =>
              <<testValueX, testValueY, testValueZ>>
                 = FirstTerms(FullControlInputs[Len(FullControlInputs)])
        /\ FullControlInputs = <<>> =>
              <<testValueX, testValueY, testValueZ>> = <<Zero32, Zero32, Zero32>>
  /\ (Returned /\ ~IsFullControl(pk)) => diagnostics = atCall.diagnostics

C8_Witness ==
  /\ pc = "idle"
  /\ inputs = << FullControlPacket(1170, BodyA),
                 FullControlPacket(65535, BodyB),
                 VelocityPacket(F_1, F_2, F_3, F_0_5) >>
  /\ debugCount = <<0, 2>>
  /\ testValueX = <<49024, 0>>
  /\ testValueY = <<49280, 0>>
  /\ testValueZ = <<49376, 0>>

-----------------------------------------------------------------------------
(* C9 *)

\* the value v is the k-th first term (k = 1, 2, 3 for x, y, z) of the n-th
\* or of the (n+1)-th full-control packet
OfNthOrNext(v, k, n) ==
  \/ v = FirstTerms(FullControlInputs[n])[k]
  \/ /\ n + 1 <= Len(FullControlInputs)
     /\ v = FirstTerms(FullControlInputs[n + 1])[k]

\* C9: in every state, also between the four diagnostic writes, the counter
\* is some n not above the number of full-control packets received, and if
\* n >= 1 each of x, y, z is the first term of the n-th or of the (n+1)-th
\* full-control packet: the samples may be torn between two consecutive
\* packets, the counter is never ahead of a sample.
C9_CountNotAhead ==
  \E n \in 0..Len(FullControlInputs) :
     /\ debugCount = U32(n)
     /\ n >= 1 =>
          /\ OfNthOrNext(testValueX, 1, n)
          /\ OfNthOrNext(testValueY, 2, n)
          /\ OfNthOrNext(testValueZ, 3, n)

\* torn: x is of the second packet, y and z still of the first, count 1
C9_Witness ==
  /\ pc = "testValueY"
  /\ inputs = << FullControlPacket(1170, BodyA),
                 FullControlPacket(65535, BodyB) >>
  /\ debugCount = <<0, 1>>
  /\ testValueX = <<49024, 0>>
  /\ testValueY = <<16512, 0>>
  /\ testValueZ = <<16608, 0>>

-----------------------------------------------------------------------------
(* C10 *)

\* C10: when a call on a packet of size >= 1 stops in an assertion (which can
\* only be a decoder's length assertion), the Setpoint is all-neutral: the
\* command the Setpoint held at the call is gone.
C10_NeutralAtFatal ==
  (Stopped /\ Len(pk) >= 1) =>
     /\ setpoint = NeutralSetpoint
     /\ pk[1] \in {1, 3}
     /\ ~IsVelocity(pk)
     /\ ~IsFullControl(pk)

C10_Witness ==
  /\ Stopped
  /\ inputs = << VelocityPacket(F_1, F_2, F_3, F_0_5),
                 Filled(velocityWorldType, 15) >>
  /\ atCall.setpoint = ResultOf(inputs[1])
  /\ atCall.setpoint.velocity.x = F_1
  /\ setpoint = NeutralSetpoint

====
